---- MODULE Spec2Model ----
(***************************************************************************)
(* Model of src/store_dashboard.py: a Streamlit page that loads a CSV feed *)
(* through a time-to-live cache, resolves the feed's columns by keyword,   *)
(* renders one status selectbox per store inside a form, and writes the    *)
(* session's status dictionary to a JSON file when the form is submitted.  *)
(*                                                                         *)
(* A script run is a sequence of steps (pc) that no operator event can     *)
(* interleave with: start -> load -> loaded -> form_end -> timer ->        *)
(* filter -> idle.  Operator events (edit, save, refresh, filter, rerun)   *)
(* and the passing of time happen only while the script is idle.           *)
(*                                                                         *)
(* What the model takes from Streamlit: session state outlives a run; a    *)
(* widget inside st.form sends its value only with the form's submit; a    *)
(* widget outside a form starts a run when it changes; st.rerun() and      *)
(* st.stop() end the run at once; two widgets with one key raise; an       *)
(* uncaught exception ends the run and is shown on the page.               *)
(***************************************************************************)
EXTENDS Integers, Sequences, FiniteSets, TLC

VARIABLES
    pc,                 \* position of the script run, "idle" between runs
    event,              \* what started the current run
    now,                \* time.time(), in seconds
    doc,                \* the file PERSISTENCE_FILE
    has_status_data,    \* 'status_data' in st.session_state
    status_data,        \* st.session_state.status_data (insertion-ordered dict)
    last_refresh_time,  \* st.session_state.last_refresh_time, NoTime if unset
    cache,              \* the st.cache_data entry of load_data
    data,               \* the DataFrame load_data returned to this run
    mapping,            \* id/name/company/inactive columns and the warnings shown
    view,               \* what the page shows
    rendered,           \* the rows of the form
    filtered,           \* DataFrame positions of the "Filtered Stores" section
    pending,            \* selectbox values changed in the browser, not yet submitted
    form_values,        \* selectbox values delivered by the form submit
    status_filter       \* value of the "Filter by Status" multiselect

vars == <<pc, event, now, doc, has_status_data, status_data, last_refresh_time,
          cache, data, mapping, view, rendered, filtered,
          pending, form_values, status_filter>>

-----------------------------------------------------------------------------
(* Bounds of the model *)

MaxCols == 4
MaxTicks == 3
MaxPending == 1

-----------------------------------------------------------------------------
(* Program constants *)

REFRESH_INTERVAL == 10 * 60

STATUS_OPTIONS == <<"", "Dormant", "Inactive", "Endorsed", "Fixed">>

NoTime == 0 - 1

-----------------------------------------------------------------------------
(* Header names are sequences of characters, so that lower() and the       *)
(* substring test `kw in col_lower` are computed, not assumed.             *)

UpperChars == <<"A","B","C","D","E","F","G","H","I","J","K","L","M",
                "N","O","P","Q","R","S","T","U","V","W","X","Y","Z">>
LowerChars == <<"a","b","c","d","e","f","g","h","i","j","k","l","m",
                "n","o","p","q","r","s","t","u","v","w","x","y","z">>

LowerChar(c) ==
    IF \E i \in DOMAIN UpperChars : UpperChars[i] = c
    THEN LowerChars[CHOOSE i \in DOMAIN UpperChars : UpperChars[i] = c]
    ELSE c

lower(s) == [i \in DOMAIN s |-> LowerChar(s[i])]

Contains(kw, s) ==
    \E i \in 1..(Len(s) - Len(kw) + 1) : SubSeq(s, i, i + Len(kw) - 1) = kw

K_id == <<"i","d">>
K_store == <<"s","t","o","r","e">>
K_location == <<"l","o","c","a","t","i","o","n">>
K_name == <<"n","a","m","e">>
K_company == <<"c","o","m","p","a","n","y">>
K_business == <<"b","u","s","i","n","e","s","s">>
K_inactive == <<"i","n","a","c","t","i","v","e">>
K_dsp == <<"d","s","p">>
K_delivery == <<"d","e","l","i","v","e","r","y">>
K_inactive_dsps == <<"i","n","a","c","t","i","v","e","_","d","s","p","s">>
K_inactive_dsp == <<"i","n","a","c","t","i","v","e","_","d","s","p">>

H_store_id == <<"s","t","o","r","e","_","i","d">>
H_Location_ID == <<"L","o","c","a","t","i","o","n","_","I","D">>
H_store_name == <<"s","t","o","r","e","_","n","a","m","e">>
H_company_name == <<"c","o","m","p","a","n","y","_","n","a","m","e">>
H_business == <<"b","u","s","i","n","e","s","s">>
H_inactive_dsps == <<"i","n","a","c","t","i","v","e","_","d","s","p","s">>
H_a == <<"a">>
H_b == <<"b">>
H_c == <<"c">>

HeaderNames == {H_store_id, H_Location_ID, H_store_name, H_company_name,
                H_business, H_inactive_dsps, H_a, H_b, H_c}

\* None for a column variable: no pandas header is the empty string
None == <<>>

-----------------------------------------------------------------------------
(* Column resolution, lines 82-121 *)

IsIdHeader(col) ==
    LET col_lower == lower(col)
    IN  Contains(K_id, col_lower)
        /\ (Contains(K_store, col_lower) \/ Contains(K_location, col_lower))

IsNameHeader(col) ==
    LET col_lower == lower(col)
    IN  Contains(K_name, col_lower)
        /\ (Contains(K_store, col_lower) \/ Contains(K_location, col_lower))

IsCompanyHeader(col) ==
    LET col_lower == lower(col)
    IN  Contains(K_company, col_lower) \/ Contains(K_business, col_lower)

IsInactiveHeader(col) ==
    LET col_lower == lower(col)
    IN  Contains(K_inactive, col_lower)
        /\ (Contains(K_dsp, col_lower) \/ Contains(K_delivery, col_lower))

IsExactInactive(col) ==
    lower(col) = K_inactive_dsps \/ lower(col) = K_inactive_dsp

NoColumns ==
    [id_column |-> None, name_column |-> None, company_column |-> None,
     inactive_dsp_column |-> None]

\* The body of the loop at lines 89-98: one if/elif chain per header
ScanHeader(found, col) ==
    IF IsIdHeader(col) THEN [found EXCEPT !.id_column = col]
    ELSE IF IsNameHeader(col) THEN [found EXCEPT !.name_column = col]
    ELSE IF IsCompanyHeader(col) THEN [found EXCEPT !.company_column = col]
    ELSE IF IsInactiveHeader(col) THEN [found EXCEPT !.inactive_dsp_column = col]
    ELSE found

\* The loop has no break: a later header that takes a role's branch
\* overwrites the column an earlier one set
RECURSIVE ScanColumns(_, _, _)
ScanColumns(columns, i, found) ==
    IF i > Len(columns) THEN found
    ELSE ScanColumns(columns, i + 1, ScanHeader(found, columns[i]))

\* The second scan stops at its first hit (break)
ExactInactiveScan(columns) ==
    IF \E i \in DOMAIN columns : IsExactInactive(columns[i])
    THEN columns[CHOOSE i \in DOMAIN columns :
                    /\ IsExactInactive(columns[i])
                    /\ \A j \in DOMAIN columns : IsExactInactive(columns[j]) => i <= j]
    ELSE None

\* Variant: every fallback takes the first header
FallbackToFirst(columns, found, position, label) ==
    IF found = None /\ Len(columns) > position
    THEN [column |-> columns[1], warnings |-> <<label>>]
    ELSE [column |-> found, warnings |-> <<>>]

\* `if x_column is None and len(data.columns) > position`, with its st.warning
Fallback(columns, found, position, label) ==
    IF found = None /\ Len(columns) > position
    THEN [column |-> columns[position + 1], warnings |-> <<label>>]
    ELSE [column |-> found, warnings |-> <<>>]

ResolveColumns(columns) ==
    LET found == ScanColumns(columns, 1, NoColumns)
        id == Fallback(columns, found.id_column, 0, "id")
        name == Fallback(columns, found.name_column, 1, "name")
        company == Fallback(columns, found.company_column, 2, "company")
        inactive == IF found.inactive_dsp_column = None
                    THEN ExactInactiveScan(columns)
                    ELSE found.inactive_dsp_column
    IN  [id_column |-> id.column,
         name_column |-> name.column,
         company_column |-> company.column,
         inactive_dsp_column |-> inactive,
         warnings |-> id.warnings \o name.warnings \o company.warnings
                      \o (IF inactive = None THEN <<"inactive">> ELSE <<>>)]

NoMapping ==
    [id_column |-> None, name_column |-> None, company_column |-> None,
     inactive_dsp_column |-> None, warnings |-> <<>>]

-----------------------------------------------------------------------------
(* A Python dict is a function from its keys to their values: no code of *)
(* the page reads the order of a dict's items.                            *)

EmptyDict == [k \in {} |-> ""]

Keys(d) == DOMAIN d

Has(d, k) == k \in DOMAIN d

Get(d, k) == d[k]

\* d.get(k, default)
GetOr(d, k, default) == IF Has(d, k) THEN Get(d, k) ELSE default

\* d[k] = v
Put(d, k, v) == [x \in (DOMAIN d) \cup {k} |-> IF x = k THEN v ELSE d[x]]

-----------------------------------------------------------------------------
(* The persisted document, lines 43-53.  A JSON object is the sequence of   *)
(* its members as written in the file; a hand-written file may repeat a key *)
(* or hold a value outside STATUS_OPTIONS.                                  *)

AbsentDoc == [kind |-> "absent", members |-> <<>>]
CorruptDoc == [kind |-> "corrupt", members |-> <<>>]
JsonDoc(members) == [kind |-> "json", members |-> members]

\* json.load of an object: members in file order, a repeated key keeps its
\* last value
RECURSIVE JsonLoad(_)
JsonLoad(members) ==
    IF members = <<>> THEN EmptyDict
    ELSE LET n == Len(members)
         IN  Put(JsonLoad(SubSeq(members, 1, n - 1)), members[n][1], members[n][2])

\* json.dump of a dict: one member per item
RECURSIVE JsonDump(_)
JsonDump(d) ==
    IF DOMAIN d = {} THEN <<>>
    ELSE LET k == CHOOSE x \in DOMAIN d : TRUE
         IN  <<<<k, d[k]>>>> \o JsonDump([x \in (DOMAIN d) \ {k} |-> d[x]])

\* os.path.exists / open / json.load; json.load raises on a file that is not
\* JSON, and nothing catches it
LoadRaises(d) == d.kind = "corrupt"

load_status_data(d) ==
    IF d.kind = "absent" THEN EmptyDict ELSE JsonLoad(d.members)

\* Variant: only the stores on the page are written
save_rendered_only(d) ==
    JsonDoc(JsonDump([k \in (DOMAIN d) \cap {rendered[i].store_id : i \in DOMAIN rendered}
                        |-> d[k]]))

save_status_data(d) == JsonDoc(JsonDump(d))

InitDocs ==
    {AbsentDoc,
     CorruptDoc,
     JsonDoc(<<<<"S1", "Dormant">>, <<"S3", "Dormant">>, <<"S1", "Fixed">>>>),
     JsonDoc(<<<<"S2", "Bogus">>>>)}

-----------------------------------------------------------------------------
(* The feed, lines 24-41.  A DataFrame is its header list and its rows; a   *)
(* row is the list of its cells, as the text str() gives for them.          *)

NaN == "nan"

EmptyTable == [columns |-> <<>>, rows |-> <<>>]

\* Variant: the emptiness test left out
IsEmptyUnchecked(table) == FALSE

\* DataFrame.empty: an axis of length 0
IsEmpty(table) == table.columns = <<>> \/ table.rows = <<>>

MainColumns == <<H_store_id, H_store_name, H_company_name, H_inactive_dsps>>

Row1 == <<"S1", "Alpha", "Acme", "DoorDash">>
Row2 == <<"S2", "Beta", "Bolt", NaN>>

FeedTables ==
    {[columns |-> MainColumns, rows |-> <<Row1, Row2>>],
     [columns |-> MainColumns, rows |-> <<Row2>>],
     [columns |-> MainColumns, rows |-> <<Row1, Row1>>],
     [columns |-> <<H_a, H_b, H_c>>, rows |-> <<<<"S1", "Alpha", "Acme">>>>]}

\* What requests.get / raise_for_status / pd.read_csv can give
FetchOutcomes ==
    {[ok |-> FALSE, table |-> EmptyTable]}
    \cup {[ok |-> TRUE, table |-> t] : t \in FeedTables}

NoCache == [present |-> FALSE, value |-> EmptyTable, at |-> 0]

\* Variant: a time-to-live of 10 seconds
CacheFreshTenSeconds(c, t) == c.present /\ t - c.at < 10

\* cachetools.TTLCache: an entry is gone once ttl seconds have passed
CacheFresh(c, t) == c.present /\ t - c.at < REFRESH_INTERVAL

\* The cached function: [data, cache, fetched] of one call at time t, when a
\* fetch, if one is made, gives outcome r
load_data(c, t, r) ==
    IF CacheFresh(c, t)
    THEN [data |-> c.value, cache |-> c, fetched |-> FALSE]
    ELSE LET df == IF r.ok THEN r.table ELSE EmptyTable
         IN  [data |-> df,
              cache |-> [present |-> TRUE, value |-> df, at |-> t],
              fetched |-> TRUE]

-----------------------------------------------------------------------------
(* The form's row loop, lines 126-173 *)

IndexOf(columns, col) == CHOOSE i \in DOMAIN columns : columns[i] = col

InColumns(table, col) == \E i \in DOMAIN table.columns : table.columns[i] = col

\* row[col]
Cell(table, i, col) == table.rows[i][IndexOf(table.columns, col)]

\* str(row[id_column]) if id_column in data.columns else str(index); the
\* index is 0-based
StoreId(table, m, i) ==
    IF InColumns(table, m.id_column)
    THEN Cell(table, i, m.id_column)
    ELSE ToString(i - 1)

InOptions(v) == \E k \in DOMAIN STATUS_OPTIONS : STATUS_OPTIONS[k] = v

\* STATUS_OPTIONS.index(v) if v in STATUS_OPTIONS else 0, as a 1-based position
OptionIndex(v) ==
    IF InOptions(v)
    THEN CHOOSE k \in DOMAIN STATUS_OPTIONS : STATUS_OPTIONS[k] = v
    ELSE 1

NoEdits == EmptyDict

\* Variant: the selectbox outside the form, its value sent with every run
SelectboxOutsideForm(sd, store_id, submitted) ==
    IF store_id \in DOMAIN submitted THEN submitted[store_id]
    ELSE IF store_id \in DOMAIN pending THEN pending[store_id]
    ELSE STATUS_OPTIONS[OptionIndex(Get(sd, store_id))]

\* Variant: no `index`, so the first option is the default
SelectboxNoIndex(sd, store_id, submitted) ==
    IF store_id \in DOMAIN submitted
    THEN submitted[store_id]
    ELSE STATUS_OPTIONS[1]

\* st.selectbox: the value the form submit delivered for this key, otherwise
\* the option at `index`
Selectbox(sd, store_id, submitted) ==
    IF store_id \in DOMAIN submitted
    THEN submitted[store_id]
    ELSE STATUS_OPTIONS[OptionIndex(Get(sd, store_id))]

InactiveText(table, m, i) ==
    IF m.inactive_dsp_column # None /\ InColumns(table, m.inactive_dsp_column)
    THEN LET inactive_dsps == Cell(table, i, m.inactive_dsp_column)
         IN  IF inactive_dsps = NaN \/ inactive_dsps = "" THEN "None" ELSE inactive_dsps
    ELSE "N/A"

CompanyText(table, m, i) ==
    IF m.company_column # None /\ InColumns(table, m.company_column)
    THEN Cell(table, i, m.company_column)
    ELSE "N/A"

NameText(table, m, i) ==
    IF InColumns(table, m.name_column)
    THEN Cell(table, i, m.name_column)
    ELSE "Store"

\* Rows i.. of the loop.  A second selectbox with a key already used in this
\* run raises (DuplicateWidgetID) after line 132 has run for that row.
RECURSIVE RowLoop(_, _, _, _, _, _, _)
RowLoop(table, m, submitted, i, sd, keys, out) ==
    IF i > Len(table.rows)
    THEN [status |-> sd, rendered |-> out, ok |-> TRUE]
    ELSE LET store_id == StoreId(table, m, i)
             sd1 == IF ~Has(sd, store_id) THEN Put(sd, store_id, "") ELSE sd
             selected_status == Selectbox(sd1, store_id, submitted)
             sd2 == Put(sd1, store_id, selected_status)
             shown == [store_id |-> store_id,
                       inactive |-> InactiveText(table, m, i),
                       company |-> CompanyText(table, m, i),
                       name |-> NameText(table, m, i),
                       status |-> selected_status]
         IN  IF store_id \in keys
             THEN [status |-> sd1, rendered |-> out, ok |-> FALSE]
             ELSE RowLoop(table, m, submitted, i + 1, sd2,
                          keys \cup {store_id}, Append(out, shown))

\* Variant: the dict rebuilt from the feed on every run
RowPassFromScratch(table, m, submitted, sd) ==
    RowLoop(table, m, submitted, 1, EmptyDict, {}, <<>>)

RowPass(table, m, submitted, sd) == RowLoop(table, m, submitted, 1, sd, {}, <<>>)

-----------------------------------------------------------------------------
(* The status filter, lines 224-238 *)

RECURSIVE FilterLoop(_, _, _, _, _)
FilterLoop(table, m, sd, chosen, i) ==
    IF i > Len(table.rows) THEN <<>>
    ELSE LET rest == FilterLoop(table, m, sd, chosen, i + 1)
         IN  IF GetOr(sd, StoreId(table, m, i), "") \in chosen
             THEN <<i>> \o rest
             ELSE rest

\* Variant: the annotation looked up by row position
RECURSIVE FilterLoopByPosition(_, _, _, _, _)
FilterLoopByPosition(table, m, sd, chosen, i) ==
    IF i > Len(table.rows) THEN <<>>
    ELSE LET rest == FilterLoopByPosition(table, m, sd, chosen, i + 1)
         IN  IF GetOr(sd, ToString(i - 1), "") \in chosen
             THEN <<i>> \o rest
             ELSE rest

filtered_by_position(table, m, sd, chosen) ==
    IF chosen # {} THEN FilterLoopByPosition(table, m, sd, chosen, 1) ELSE <<>>

\* filtered_indices, as 1-based row positions; nothing is shown for an empty
\* selection
filtered_indices(table, m, sd, chosen) ==
    IF chosen # {} THEN FilterLoop(table, m, sd, chosen, 1) ELSE <<>>

FilterChoices == {{}, {"Dormant"}, {"Fixed", "Inactive"}}

EditChoices == {"Dormant"}


-----------------------------------------------------------------------------
(* State *)

TickSeconds == REFRESH_INTERVAL \div 2

Restrict(f, S) == [k \in (DOMAIN f) \cap S |-> f[k]]

RenderedIds == {rendered[i].store_id : i \in DOMAIN rendered}

Init ==
    /\ pc = "start"
    /\ event = "open"
    /\ now = 0
    /\ doc \in InitDocs
    /\ has_status_data = FALSE
    /\ status_data = EmptyDict
    /\ last_refresh_time = NoTime
    /\ cache = NoCache
    /\ data = EmptyTable
    /\ mapping = NoMapping
    /\ view = "blank"
    /\ rendered = <<>>
    /\ filtered = <<>>
    /\ pending = NoEdits
    /\ form_values = NoEdits
    /\ status_filter = {}

\* A run starts from the top of the script and redraws the page.  Once
\* 'status_data' is in the session state, the test at line 56 is false and
\* the run is at line 63.
StartRun(ev) ==
    /\ pc' = IF has_status_data THEN "load" ELSE "start"
    /\ event' = ev
    /\ data' = EmptyTable
    /\ mapping' = NoMapping
    /\ view' = "blank"
    /\ rendered' = <<>>
    /\ filtered' = <<>>

\* A run that ends before the form is drawn leaves no selectbox on the page
EndWithoutForm(shown) ==
    /\ pc' = "idle"
    /\ event' = "none"
    /\ view' = shown
    /\ pending' = NoEdits
    /\ form_values' = NoEdits

-----------------------------------------------------------------------------
(* The script, one action per step of a run *)

\* Lines 56-57
SessionInit ==
    /\ pc = "start"
    /\ ~has_status_data
    /\ IF LoadRaises(doc)
       THEN /\ EndWithoutForm("load_exception")
            /\ UNCHANGED <<has_status_data, status_data>>
       ELSE /\ has_status_data' = TRUE
            /\ status_data' = load_status_data(doc)
            /\ pc' = "load"
            /\ UNCHANGED <<event, view, pending, form_values>>
    /\ UNCHANGED <<now, doc, last_refresh_time, cache, data,
                   mapping, rendered, filtered, status_filter>>

\* Lines 63-68
LoadData ==
    /\ pc = "load"
    /\ \E r \in FetchOutcomes :
          \E got \in {load_data(cache, now, r)} :
              /\ data' = got.data
              /\ cache' = got.cache
              /\ IF IsEmpty(got.data)
                 THEN EndWithoutForm("error")
                 ELSE /\ pc' = "loaded"
                      /\ UNCHANGED <<event, view, pending, form_values>>
    /\ UNCHANGED <<now, doc, has_status_data, status_data,
                   last_refresh_time, mapping, rendered, filtered,
                   status_filter>>

\* Lines 75-77: st.cache_data.clear(); st.rerun()
RefreshNow ==
    /\ pc = "loaded"
    /\ event = "refresh"
    /\ cache' = NoCache
    /\ StartRun("rerun_manual")
    /\ UNCHANGED <<now, doc, has_status_data, status_data, last_refresh_time,
                   pending, form_values, status_filter>>

\* Lines 80-173
RenderRows ==
    /\ pc = "loaded"
    /\ event # "refresh"
    /\ \E m \in {ResolveColumns(data.columns)} :
       \E pass \in {RowPass(data, m, form_values, status_data)} :
          /\ mapping' = m
          /\ status_data' = pass.status
          /\ rendered' = pass.rendered
          /\ IF pass.ok
             THEN /\ pc' = IF event = "save" THEN "form_end" ELSE "timer"
                  /\ view' = "rows"
                  /\ pending' = Restrict(pending, {pass.rendered[i].store_id :
                                                      i \in DOMAIN pass.rendered})
                  /\ form_values' = NoEdits
                  /\ UNCHANGED event
             ELSE EndWithoutForm("row_exception")
    /\ UNCHANGED <<now, doc, has_status_data, last_refresh_time, cache,
                   data, filtered, status_filter>>

\* Lines 176-179, when `submitted` is true; open(PERSISTENCE_FILE, 'w')
\* raises when the file cannot be written
SaveStatusChanges ==
    /\ pc = "form_end"
    /\ event = "save"
    /\ \E writable \in BOOLEAN :
          IF writable
          THEN /\ doc' = save_status_data(status_data)
               /\ pc' = "timer"
               /\ UNCHANGED <<event, view>>
          ELSE /\ pc' = "idle"
               /\ event' = "none"
               /\ view' = "save_exception"
               /\ UNCHANGED doc
    /\ UNCHANGED <<now, has_status_data, status_data, last_refresh_time,
                   cache, data, mapping, rendered, filtered, pending,
                   form_values, status_filter>>

\* Lines 182-190
AutoRefresh ==
    /\ pc = "timer"
    /\ LET last == IF last_refresh_time = NoTime THEN now ELSE last_refresh_time
       IN  IF now - last > REFRESH_INTERVAL
           THEN /\ last_refresh_time' = now
                /\ cache' = NoCache
                /\ StartRun("rerun_timer")
           ELSE /\ last_refresh_time' = last
                /\ pc' = "filter"
                /\ UNCHANGED <<event, cache, data, mapping, view,
                               rendered, filtered>>
    /\ UNCHANGED <<now, doc, has_status_data, status_data, pending, form_values,
                   status_filter>>

\* Lines 195-199 and 224-238
ApplyStatusFilter ==
    /\ pc = "filter"
    /\ filtered' = filtered_indices(data, mapping, status_data, status_filter)
    /\ pc' = "idle"
    /\ event' = "none"
    /\ UNCHANGED <<now, doc, has_status_data, status_data,
                   last_refresh_time, cache, data, mapping, view,
                   rendered, pending, form_values, status_filter>>

-----------------------------------------------------------------------------
(* The operator and the clock, while the script is idle *)

\* The selectboxes are inside st.form (line 124): a changed value stays in
\* the browser until the form is submitted, and starts no run.
EditStatus ==
    /\ pc = "idle"
    /\ view \in {"rows", "save_exception"}
    /\ \E store_id \in RenderedIds, v \in EditChoices :
          /\ pending' = [k \in (DOMAIN pending) \cup {store_id} |->
                            IF k = store_id THEN v ELSE pending[k]]
          /\ pending' # pending
          /\ Cardinality(DOMAIN pending') <= MaxPending
    /\ UNCHANGED <<pc, event, now, doc, has_status_data, status_data,
                   last_refresh_time, cache, data, mapping, view,
                   rendered, filtered, form_values, status_filter>>

\* "Save Status Changes" (line 176): the submit delivers the form's values
ClickSave ==
    /\ pc = "idle"
    /\ view \in {"rows", "save_exception"}
    /\ form_values' = pending
    /\ pending' = NoEdits
    /\ StartRun("save")
    /\ UNCHANGED <<now, doc, has_status_data, status_data, last_refresh_time,
                   cache, status_filter>>

\* "Refresh Now" (line 75)
ClickRefresh ==
    /\ pc = "idle"
    /\ view \in {"rows", "row_exception", "save_exception"}
    /\ StartRun("refresh")
    /\ UNCHANGED <<now, doc, has_status_data, status_data, last_refresh_time,
                   cache, pending, form_values, status_filter>>

\* "Filter by Status" (line 196): a widget outside the form starts a run
ChangeFilter ==
    /\ pc = "idle"
    /\ view = "rows"
    /\ \E chosen \in FilterChoices :
          /\ chosen # status_filter
          /\ status_filter' = chosen
    /\ StartRun("rerun")
    /\ UNCHANGED <<now, doc, has_status_data, status_data, last_refresh_time,
                   cache, pending, form_values>>

\* Streamlit's own Rerun command: the script runs again with nothing changed
Rerun ==
    /\ pc = "idle"
    /\ StartRun("rerun")
    /\ UNCHANGED <<now, doc, has_status_data, status_data, last_refresh_time,
                   cache, pending, form_values, status_filter>>

Tick ==
    /\ pc = "idle"
    /\ now < MaxTicks * TickSeconds
    /\ now' = now + TickSeconds
    /\ UNCHANGED <<pc, event, doc, has_status_data, status_data,
                   last_refresh_time, cache, data, mapping, view,
                   rendered, filtered, pending, form_values,
                   status_filter>>

Next ==
    \/ SessionInit
    \/ LoadData
    \/ RefreshNow
    \/ RenderRows
    \/ SaveStatusChanges
    \/ AutoRefresh
    \/ ApplyStatusFilter
    \/ EditStatus
    \/ ClickSave
    \/ ClickRefresh
    \/ ChangeFilter
    \/ Rerun
    \/ Tick

Spec == Init /\ [][Next]_vars


-----------------------------------------------------------------------------
(* Column resolution on its own: every list of up to MaxCols distinct      *)
(* headers, one row, the session already started.                          *)

HeaderLists ==
    {h \in UNION {[1..n -> HeaderNames] : n \in 1..MaxCols} :
        \A i, j \in DOMAIN h : i # j => h[i] # h[j]}

InitResolve ==
    /\ pc = "loaded"
    /\ event = "rerun"
    /\ now = 0
    /\ doc = AbsentDoc
    /\ has_status_data = TRUE
    /\ status_data = EmptyDict
    /\ last_refresh_time = NoTime
    /\ \E h \in HeaderLists :
          /\ data = [columns |-> h, rows |-> <<[i \in DOMAIN h |-> "S1"]>>]
          /\ cache = [present |-> TRUE, value |-> data, at |-> 0]
    /\ mapping = NoMapping
    /\ view = "blank"
    /\ rendered = <<>>
    /\ filtered = <<>>
    /\ pending = NoEdits
    /\ form_values = NoEdits
    /\ status_filter = {}

SpecResolve == InitResolve /\ [][RenderRows]_vars


-----------------------------------------------------------------------------
(* Properties of the column resolution, checked under SpecResolve *)

Resolved == view = "rows"

\* A role's keyword rule, as a predicate of one header
RuleHolds(role, col) ==
    IF role = "id" THEN IsIdHeader(col)
    ELSE IF role = "name" THEN IsNameHeader(col)
    ELSE IF role = "company" THEN IsCompanyHeader(col)
    ELSE IsInactiveHeader(col) \/ IsExactInactive(col)

\* The first header of the list that satisfies a role's rule
FirstMatching(columns, role) ==
    columns[CHOOSE i \in DOMAIN columns :
               /\ RuleHolds(role, columns[i])
               /\ \A j \in DOMAIN columns : RuleHolds(role, columns[j]) => i <= j]

NoneMatches(columns, role) == \A i \in DOMAIN columns : ~RuleHolds(role, columns[i])

PositionOrNone(columns, n) == IF Len(columns) >= n THEN columns[n] ELSE None

\* C4: for every header list and every role, when several headers satisfy
\* the role's keyword rule the role resolves to the first of them in header
\* order; a later matching header never replaces it.
C4_FirstMatchWins ==
    Resolved =>
        /\ ~NoneMatches(data.columns, "id")
              => mapping.id_column = FirstMatching(data.columns, "id")
        /\ ~NoneMatches(data.columns, "name")
              => mapping.name_column = FirstMatching(data.columns, "name")
        /\ ~NoneMatches(data.columns, "company")
              => mapping.company_column = FirstMatching(data.columns, "company")
        /\ ~NoneMatches(data.columns, "inactive")
              => mapping.inactive_dsp_column = FirstMatching(data.columns, "inactive")

\* The general part of C5: a role none of whose keywords any header matches
\* falls back to the 1st, 2nd or 3rd header if the list is that long, and the
\* inactive-platforms role stays unresolved.
FallbackRule ==
    /\ NoneMatches(data.columns, "id")
          => mapping.id_column = PositionOrNone(data.columns, 1)
    /\ NoneMatches(data.columns, "name")
          => mapping.name_column = PositionOrNone(data.columns, 2)
    /\ NoneMatches(data.columns, "company")
          => mapping.company_column = PositionOrNone(data.columns, 3)
    /\ NoneMatches(data.columns, "inactive")
          => mapping.inactive_dsp_column = None

AbcResolved ==
    /\ mapping.id_column = H_a
    /\ mapping.name_column = H_b
    /\ mapping.company_column = H_c
    /\ mapping.inactive_dsp_column = None

\* C5 as stated: the fallback rule, and for headers a, b, c the mapping
\* a, b, c, unresolved with three advisories.
C5_ThreeAdvisories ==
    Resolved =>
        /\ FallbackRule
        /\ data.columns = <<H_a, H_b, H_c>>
              => AbcResolved /\ Len(mapping.warnings) = 3

Warned(label) == \E i \in DOMAIN mapping.warnings : mapping.warnings[i] = label

\* C5 as amended: the fallback rule; one advisory for each role that fell
\* back and one for unresolved inactive platforms; for headers a, b, c the
\* mapping a, b, c, unresolved with four advisories.
C5_FallbackAdvisories ==
    Resolved =>
        /\ FallbackRule
        /\ NoneMatches(data.columns, "id") => Warned("id")
        /\ NoneMatches(data.columns, "name")
              => (Warned("name") <=> Len(data.columns) >= 2)
        /\ NoneMatches(data.columns, "company")
              => (Warned("company") <=> Len(data.columns) >= 3)
        /\ NoneMatches(data.columns, "inactive") => Warned("inactive")
        /\ data.columns = <<H_a, H_b, H_c>>
              => /\ AbcResolved
                 /\ mapping.warnings = <<"id", "name", "company", "inactive">>

\* C5's case: headers a, b, c have been resolved
C5_Witness ==
    Resolved /\ data.columns = <<H_a, H_b, H_c>> /\ mapping.id_column = H_a


-----------------------------------------------------------------------------
(* Properties of the dashboard, checked under Spec *)

\* The annotation document as json.load reads it
Loaded == load_status_data(doc)

\* A step of a refresh: the run a "Refresh Now" click starts, the step at
\* which the timer fires, and the rerun either one requests
Refreshing ==
    event \in {"refresh", "rerun_manual", "rerun_timer"} \/ event' = "rerun_timer"

\* The operator changes a selectbox
EditStep == pc = "idle" /\ pc' = "idle" /\ pending' # pending

Edited(k) == k \notin DOMAIN pending \/ pending[k] # pending'[k]

Increasing(seq) == \A i, j \in DOMAIN seq : i < j => seq[i] < seq[j]

C7_FetchFailure ==
    [][(pc = "load" /\ cache' # cache /\ cache'.value = EmptyTable)
          => /\ data' = EmptyTable
             /\ pc' = "idle"
             /\ view' = "error"
             /\ rendered' = <<>>
             /\ status_data' = status_data
             /\ doc' = doc]_vars

\* C7's case: a fetch made now has failed, with a record that differs from
\* the document
C7_Witness ==
    /\ pc = "idle"
    /\ view = "error"
    /\ cache.present /\ cache.value = EmptyTable /\ cache.at = now
    /\ now > 0
    /\ has_status_data
    /\ doc.kind = "json"
    /\ status_data # Loaded

\* C8: loading the annotation document at session start never fails; with no
\* document, or one that cannot be parsed, the session starts with the empty
\* mapping and the dashboard goes on.
C8_LoadNeverFails ==
    /\ pc # "start" => has_status_data /\ view # "load_exception"
    /\ (pc = "load" /\ event = "open" /\ doc.kind # "json")
          => status_data = EmptyDict

\* C9: after a successful save the document, loaded again, equals the whole
\* in-memory record at the moment of the save.
C9_SaveRoundTrip ==
    [][(pc = "form_end" /\ pc' = "timer")
          => /\ doc'.kind = "json"
             /\ load_status_data(doc') = status_data
             /\ status_data' = status_data]_vars

\* C9's case: a save has written a record that holds an edit and an entry for
\* a store the feed does not list, over a document that differed from it
C9_Witness ==
    /\ pc = "timer"
    /\ event = "save"
    /\ doc.kind = "json"
    /\ Loaded = status_data
    /\ \E k \in Keys(status_data) : k \notin RenderedIds
    /\ \E k \in RenderedIds : status_data[k] = "Dormant"

\* C10: within REFRESH_INTERVAL seconds of a feed load the loader returns the
\* cached table without a fetch; a fetch happens only when the entry has
\* expired or was cleared, and it is cleared only by "Refresh Now" or by the
\* timer more than REFRESH_INTERVAL seconds after the recorded refresh.
C10_CacheWindow ==
    [][/\ (pc = "load" /\ cache.present /\ now - cache.at < REFRESH_INTERVAL)
             => cache' = cache /\ data' = cache.value
       /\ (pc = "load" /\ cache' # cache)
             => /\ ~cache.present \/ now - cache.at >= REFRESH_INTERVAL
                /\ cache'.present /\ cache'.at = now /\ data' = cache'.value
       /\ (cache.present /\ ~cache'.present)
             => \/ pc = "loaded" /\ event = "refresh"
                \/ /\ pc = "timer"
                   /\ last_refresh_time # NoTime
                   /\ now - last_refresh_time > REFRESH_INTERVAL
       /\ cache' # cache => pc \in {"load", "loaded", "timer"}]_vars

\* C10's case: a run has taken the table from a cache entry made earlier
C10_Witness ==
    /\ pc = "timer"
    /\ cache.present
    /\ cache.at < now
    /\ now - cache.at < REFRESH_INTERVAL
    /\ data = cache.value


====
